---- MODULE Spec2Model ----
(***************************************************************************)
(* Model of the feature-dependency analyzer of scripts/deps.py             *)
(* (DependencyAnalyzer): the loading of features.json,                     *)
(* dependency_graph.json and index_acronym.json, the graph queries, and    *)
(* the resolution of a query string to a feature key in deps.py, search.py *)
(* and cmedit_generator.py. The activation order and the coexistence       *)
(* validation follow their design description.                             *)
(*                                                                         *)
(* A Python dict is modelled as the sequence of its entries in insertion   *)
(* order, a Python list as a sequence, a Python set as a set.              *)
(***************************************************************************)
EXTENDS Integers, Sequences, FiniteSets, TLC

\* ------------------------------------------------------------------ bounds
\* feature keys that occur in the snapshot files
Keys == {"A", "B", "C"}
\* a missing or empty 'from'/'to' of an edge (None and "" are both falsy)
NoKey == ""
\* most edges in dependency_graph.json, all types together
MaxEdges == 3
\* most edges in a dependency_graph.json that has Related or Conflicting edges
MaxMixedEdges == 2
\* most edges in dependency_graph.json, all of them Prerequisite, when the
\* queries run step by step
MaxStepEdges == 2
\* most targets, all lists together, in the flat ("fallback") dependency_graph.json
MaxFlatEdges == 2
\* largest max_depth passed to format_dependency_tree besides the default
MaxDepthArg == 1
MaxSessionEdges == 1   \* edges of dependency_graph.json in a session of queries
MaxCalls == 2          \* queries of one session
MaxQueryLen == 5       \* characters of a query string
MaxPlanEdges == 2      \* edges of the snapshot given to order() and validate()
MaxRequestLen == 2     \* keys of a request of order() or validate()
MaxAcronymLen == 2     \* characters of an acronym query
MaxDeepEdges == 4      \* edges of a graph deeper than the default tree depth

\* ------------------------------------------------------- program constants
\* default of the max_depth parameter of format_dependency_tree
DefaultMaxDepth == 3
\* the keys of dep_graph['edges'], in file order
EdgeTypes == <<"Prerequisite", "Related", "Conflicting">>

\* ------------------------------------------------------------------ helpers
SeqsUpTo(S, n) == UNION {[1..m -> S] : m \in 0..n}

Range(s) == {s[i] : i \in 1..Len(s)}

\* s.index(x): position of the first occurrence
Index(s, x) == CHOOSE i \in 1..Len(s) : s[i] = x /\ \A j \in 1..(i-1) : s[j] # x

\* s[i:] taken as the whole of s
Slice_FromStart(s, i) == s

\* s[i:] of Python with a 1-based i
Slice(s, i) == SubSeq(s, i, Len(s))

NoDup(s) == \A i, j \in 1..Len(s) : i # j => s[i] # s[j]

\* ---------------------------------------------------------- dict as sequence
\* k in d
HasKey(d, k) == \E i \in 1..Len(d) : d[i].key = k

KeyIndex(d, k) == CHOOSE i \in 1..Len(d) : d[i].key = k

\* d.get(k, [])
DictGet(d, k) == IF HasKey(d, k) THEN d[KeyIndex(d, k)].deps ELSE <<>>

\* list(d): the keys in insertion order
DictKeys(d) == [i \in 1..Len(d) |-> d[i].key]

\* ------------------------------------------------------------------- state
VARIABLES
    features_file,     \* features.json on disk
    dep_graph_file,    \* dependency_graph.json on disk
    acronym_file,      \* index_acronym.json on disk
    pc,                \* "start" before DependencyAnalyzer(...), "ready" after
    features,          \* self.features
    dependency_graph,  \* self.dependency_graph
    conflict_graph,    \* self.conflict_graph
    feature_by_acronym,\* self.feature_by_acronym
    last,              \* the last query made and what it returned
    run                \* the query in progress, when queries run step by step

vars == <<features_file, dep_graph_file, acronym_file, pc, features,
          dependency_graph, conflict_graph, feature_by_acronym, last, run>>

\* ------------------------------------------------------------ snapshot files
\* features.json: absent, not JSON, or a mapping whose keys are given
FeatureFiles ==
    {[present |-> FALSE, json |-> FALSE, keys |-> {}],
     [present |-> TRUE, json |-> FALSE, keys |-> {}]} \cup
    {[present |-> TRUE, json |-> TRUE, keys |-> ks] : ks \in {{"A", "B"}, Keys}}

\* one edge object {"from": ..., "to": ...}; an edge lacking either is NoKey/NoKey
EdgeObjects ==
    {[from |-> f, to |-> t] : f \in Keys, t \in Keys} \cup
    {[from |-> NoKey, to |-> NoKey]}

\* dep_graph['edges']: one edge list per type; maxEdges edges at most, and
\* maxMixed at most when some of them are Related or Conflicting
EdgesByType(maxEdges, maxMixed) ==
    UNION { UNION { UNION {
        {<<p, r, c>> : p \in [1..np -> EdgeObjects],
                       r \in [1..nr -> EdgeObjects],
                       c \in [1..nc -> EdgeObjects]} :
        nc \in {n \in 0..(maxEdges - np - nr) :
                   nr + n > 0 => np + nr + n <= maxMixed} } :
        nr \in 0..(maxEdges - np) } :
        np \in 0..maxEdges }

\* the flat shape {"key": [targets...]}: distinct keys in any order, and
\* MaxFlatEdges targets at most
FlatDicts ==
    LET KeyOrders == {ks \in SeqsUpTo(Keys, Cardinality(Keys)) : NoDup(ks)}
        Lists     == SeqsUpTo(Keys, MaxFlatEdges)
        RECURSIVE Total(_, _)
        Total(ls, n) == IF n = 0 THEN 0 ELSE Len(ls[n]) + Total(ls, n - 1)
    IN UNION {
           {[i \in 1..Len(ks) |-> [key |-> ks[i], deps |-> ls[i]]] :
               ls \in {x \in [1..Len(ks) -> Lists] : Total(x, Len(ks)) <= MaxFlatEdges}} :
           ks \in KeyOrders }

NoEdges == <<<<>>, <<>>, <<>>>>

\* dependency_graph.json: absent, not JSON, {"edges": {...}}, or the flat shape
DepGraphFiles(edges, flats) ==
    {[kind |-> k, edges |-> NoEdges, flat |-> <<>>] : k \in {"absent", "malformed"}} \cup
    {[kind |-> "edges", edges |-> e, flat |-> <<>>] : e \in edges} \cup
    {[kind |-> "flat", edges |-> NoEdges, flat |-> d] : d \in flats}

\* ------------------------------------------------------------------ loading
\* _load_json('features.json'): [] when the file is absent, else the mapping
LoadFeatures(ff) ==
    IF ff.present THEN [kind |-> "dict", keys |-> ff.keys]
    ELSE [kind |-> "list", keys |-> {}]

\* the edge stored by assignment, self.dependency_graph[from_node] = [to_node]:
\* the earlier edges of from_node are lost
AddEdge_Overwrite(g, e) ==
    IF e.from # NoKey /\ e.to # NoKey
    THEN LET g1 == IF HasKey(g, e.from) THEN g
                   ELSE Append(g, [key |-> e.from, deps |-> <<>>])
             i  == KeyIndex(g1, e.from)
         IN [g1 EXCEPT ![i].deps = <<e.to>>]
    ELSE g

\* lines 50-53: one edge appended to the merged map
AddEdge(g, e) ==
    IF e.from # NoKey /\ e.to # NoKey
    THEN LET g1 == IF HasKey(g, e.from) THEN g
                   ELSE Append(g, [key |-> e.from, deps |-> <<>>])
             i  == KeyIndex(g1, e.from)
         IN [g1 EXCEPT ![i].deps = Append(@, e.to)]
    ELSE g

RECURSIVE AddEdges(_, _)
AddEdges(g, es) ==
    IF es = <<>> THEN g ELSE AddEdges(AddEdge(g, Head(es)), Tail(es))

\* lines 45-47: every edge type, in file order, goes into the same map
RECURSIVE AddEdgeTypes(_, _, _)
AddEdgeTypes(g, edges, t) ==
    IF t > Len(EdgeTypes) THEN g
    ELSE AddEdgeTypes(AddEdges(g, edges[t]), edges, t + 1)

\* lines 42-56 of _load_data
LoadDependencyGraph(df) ==
    IF df.kind = "edges" THEN AddEdgeTypes(<<>>, df.edges, 1)
    ELSE IF df.kind = "flat" THEN df.flat
    ELSE <<>>

\* ------------------------------------------------------------ acronym index
\* A string of a query or of index_acronym.json is the sequence of its
\* characters.
\* None and the empty string, both falsy
NoStr == <<>>

\* str.upper(), on the letters that occur
UpperChar(c) ==
    CASE c = "a" -> "A"
      [] c = "f" -> "F"
      [] c = "j" -> "J"
      [] OTHER -> c

Upper(s) == [i \in 1..Len(s) |-> UpperChar(s[i])]

\* index_acronym.json: absent, not JSON, or a mapping acronym -> FAJ code,
\* given as its entries in file order
NoAcronymFile == [present |-> FALSE, json |-> FALSE, entries |-> <<>>]

\* line 61: d[acronym.upper()] = faj_code; a key already there keeps its place
SetAcronym(d, en) ==
    LET k == Upper(en.acronym)
    IN IF \E i \in 1..Len(d) : d[i].acronym = k
       THEN [i \in 1..Len(d) |-> IF d[i].acronym = k THEN [d[i] EXCEPT !.faj = en.faj]
                                 ELSE d[i]]
       ELSE Append(d, [acronym |-> k, faj |-> en.faj])

RECURSIVE SetAcronyms(_, _)
SetAcronyms(d, es) ==
    IF es = <<>> THEN d ELSE SetAcronyms(SetAcronym(d, Head(es)), Tail(es))

\* lines 59-61: _load_json gives {} for an absent index
LoadAcronyms(af) == IF af.present THEN SetAcronyms(<<>>, af.entries) ELSE <<>>

\* feature_by_acronym.get(acronym.upper()), None being NoKey
get_feature_by_acronym(d, acronym) ==
    LET k == Upper(acronym)
    IN IF \E i \in 1..Len(d) : d[i].acronym = k
       THEN d[CHOOSE i \in 1..Len(d) : d[i].acronym = k].faj
       ELSE NoStr

\* --------------------------------------------------------- get_dependencies
\* the loop body without the test of line 81: a key queued twice is listed twice
DepsStep_NoVisitedTest(g, st) ==
    LET current == Head(st.to_visit)
        v       == st.visited \cup {current}
    IN [visited  |-> v,
        to_visit |-> Tail(st.to_visit) \o SelectSeq(DictGet(g, current), LAMBDA d : d \notin v),
        out      |-> Append(st.out, current)]

\* the loop body reading to_visit[0] and popping it only when it is new
DepsStep_NoPop(g, st) ==
    LET current == Head(st.to_visit)
        rest    == Tail(st.to_visit)
    IN IF current \in st.visited
       THEN st
       ELSE LET v == st.visited \cup {current}
            IN [visited  |-> v,
                to_visit |-> rest \o SelectSeq(DictGet(g, current), LAMBDA d : d \notin v),
                out      |-> Append(st.out, current)]

\* lines 79-90: one iteration of the while loop
DepsStep(g, st) ==
    LET current == Head(st.to_visit)
        rest    == Tail(st.to_visit)
    IN IF current \in st.visited
       THEN [st EXCEPT !.to_visit = rest]
       ELSE LET v == st.visited \cup {current}
            IN [visited  |-> v,
                to_visit |-> rest \o SelectSeq(DictGet(g, current), LAMBDA d : d \notin v),
                out      |-> Append(st.out, current)]

RECURSIVE DepsLoop(_, _)
DepsLoop(g, st) ==
    IF st.to_visit = <<>> THEN st ELSE DepsLoop(g, DepsStep(g, st))

get_dependencies(g, faj_code, recursive) ==
    LET direct_deps == DictGet(g, faj_code)
    IN IF ~recursive THEN direct_deps
       ELSE DepsLoop(g, [visited |-> {}, to_visit |-> direct_deps, out |-> <<>>]).out

\* ----------------------------------------------------------- get_dependents
\* lines 98-100 and 119-121: the keys whose list holds x, in dict order
Holders(g, x) ==
    DictKeys(SelectSeq(g, LAMBDA en : x \in Range(en.deps)))

\* the loop body queueing the dependencies of current, as get_dependencies does
DependentsStep_Forward(g, st) ==
    LET current == Head(st.to_visit)
        rest    == Tail(st.to_visit)
    IN IF current \in st.visited
       THEN [st EXCEPT !.to_visit = rest]
       ELSE LET v == st.visited \cup {current}
            IN [visited  |-> v,
                to_visit |-> rest \o SelectSeq(DictGet(g, current), LAMBDA f : f \notin v),
                out      |-> Append(st.out, current)]

\* lines 110-121: one iteration of the while loop
DependentsStep(g, st) ==
    LET current == Head(st.to_visit)
        rest    == Tail(st.to_visit)
    IN IF current \in st.visited
       THEN [st EXCEPT !.to_visit = rest]
       ELSE LET v == st.visited \cup {current}
            IN [visited  |-> v,
                to_visit |-> rest \o SelectSeq(Holders(g, current), LAMBDA f : f \notin v),
                out      |-> Append(st.out, current)]

RECURSIVE DependentsLoop(_, _)
DependentsLoop(g, st) ==
    IF st.to_visit = <<>> THEN st ELSE DependentsLoop(g, DependentsStep(g, st))

get_dependents(g, faj_code, recursive) ==
    LET dependents == Holders(g, faj_code)
    IN IF ~recursive THEN dependents
       ELSE DependentsLoop(g, [visited |-> {}, to_visit |-> dependents, out |-> <<>>]).out

\* -------------------------------------------------------------- find_cycles
\* the state of find_cycles: the cycles found, the shared visited set, the
\* position idx of the loop of line 150 in the dict, and the frames of the
\* dfs_cycle calls in progress, each with its own path and stack copies and
\* the position i of its loop over the neighbours
CyclesStart == [cycles |-> <<>>, visited |-> {}, idx |-> 1, frames |-> <<>>]

CyclesDone(g, cs) == cs.frames = <<>> /\ cs.idx > Len(g)

\* dfs_cycle entered with a path that holds the node alone
DfsFrame_OwnPath(node, path, stack) ==
    [node |-> node, path |-> {node}, stack |-> Append(stack, node), i |-> 1]

\* lines 132-134: dfs_cycle(node, path, stack) entered
DfsFrame(node, path, stack) ==
    [node |-> node, path |-> path \cup {node}, stack |-> Append(stack, node), i |-> 1]

\* find_cycles with a visited set that is emptied when a cycle is returned
CyclesStep_VisitedPerRoot(g, cs) ==
    IF cs.frames = <<>>
    THEN LET node == g[cs.idx].key
         IN IF node \notin cs.visited
            THEN [cs EXCEPT !.visited = @ \cup {node},
                            !.frames = <<DfsFrame(node, {}, <<>>)>>]
            ELSE [cs EXCEPT !.idx = @ + 1]
    ELSE LET n   == Len(cs.frames)
             top == cs.frames[n]
             nbs == DictGet(g, top.node)
         IN IF top.i > Len(nbs)
            THEN IF n = 1
                 THEN [cs EXCEPT !.frames = <<>>, !.idx = @ + 1]
                 ELSE [cs EXCEPT !.frames = [SubSeq(@, 1, n - 1) EXCEPT ![n - 1].i = @ + 1]]
            ELSE LET neighbor == nbs[top.i]
                 IN IF neighbor \notin cs.visited
                    THEN [cs EXCEPT !.visited = @ \cup {neighbor},
                                    !.frames = Append(@, DfsFrame(neighbor, top.path, top.stack))]
                    ELSE IF neighbor \in top.path
                    THEN LET cycle == Append(Slice(top.stack, Index(top.stack, neighbor)), neighbor)
                         IN [cs EXCEPT !.frames = <<>>,
                                       !.idx = @ + 1,
                                       !.visited = {},
                                       !.cycles = IF cycle \in Range(@) THEN @
                                                  ELSE Append(@, cycle)]
                    ELSE [cs EXCEPT !.frames[n].i = @ + 1]

\* one step of find_cycles: an iteration of the loop of line 150 when no
\* dfs_cycle call is in progress, otherwise an iteration of the loop of
\* line 136 of the innermost call, or its return
CyclesStep(g, cs) ==
    IF cs.frames = <<>>
    THEN LET node == g[cs.idx].key
         IN IF node \notin cs.visited
            THEN [cs EXCEPT !.visited = @ \cup {node},
                            !.frames = <<DfsFrame(node, {}, <<>>)>>]
            ELSE [cs EXCEPT !.idx = @ + 1]
    ELSE LET n   == Len(cs.frames)
             top == cs.frames[n]
             nbs == DictGet(g, top.node)
         IN IF top.i > Len(nbs)
            THEN \* lines 146-148: return None to the caller
                 IF n = 1
                 THEN [cs EXCEPT !.frames = <<>>, !.idx = @ + 1]
                 ELSE [cs EXCEPT !.frames = [SubSeq(@, 1, n - 1) EXCEPT ![n - 1].i = @ + 1]]
            ELSE LET neighbor == nbs[top.i]
                 IN IF neighbor \notin cs.visited
                    THEN [cs EXCEPT !.visited = @ \cup {neighbor},
                                    !.frames = Append(@, DfsFrame(neighbor, top.path, top.stack))]
                    ELSE IF neighbor \in top.path
                    THEN \* lines 143-144, 139-140 in every caller, 153-154
                         LET cycle == Append(Slice(top.stack, Index(top.stack, neighbor)), neighbor)
                         IN [cs EXCEPT !.frames = <<>>,
                                       !.idx = @ + 1,
                                       !.cycles = IF cycle \in Range(@) THEN @
                                                  ELSE Append(@, cycle)]
                    ELSE [cs EXCEPT !.frames[n].i = @ + 1]

RECURSIVE CyclesLoop(_, _)
CyclesLoop(g, cs) ==
    IF CyclesDone(g, cs) THEN cs ELSE CyclesLoop(g, CyclesStep(g, cs))

find_cycles(g) == CyclesLoop(g, CyclesStart).cycles

\* --------------------------------------------------- format_dependency_tree
\* the 'name' of the record of a key in features.json
RecordName == [k \in Keys |-> "name of " \o k]

\* features.get(k, {}).get('name', 'Unknown')
FeatureName(feats, k) == IF k \in feats.keys THEN RecordName[k] ELSE "Unknown"

\* the state of add_deps: the lines appended and the frames of the calls in
\* progress, each with its code, prefix, depth and the position i of its loop
TreeStart(faj_code) ==
    [lines |-> <<>>, frames |-> <<[code |-> faj_code, prefix |-> <<>>, depth |-> 0, i |-> 1]>>]

TreeDone(ts) == ts.frames = <<>>

\* a line of the tree: the prefix is the is_last flag of every ancestor
\* ("    " when TRUE, "|   " when FALSE), then the connector, name and key
TreeLine(prefix, is_last, name, key) ==
    [prefix |-> prefix, is_last |-> is_last, name |-> name, key |-> key]

\* one step of add_deps: the return of the innermost call (lines 176-181 or
\* the end of the loop), or an iteration of its loop up to the nested call
TreeStep(g, feats, max_depth, ts) ==
    LET n    == Len(ts.frames)
        top  == ts.frames[n]
        deps == DictGet(g, top.code)
    IN IF top.depth >= max_depth \/ top.i > Len(deps)
       THEN [ts EXCEPT !.frames = SubSeq(@, 1, n - 1)]
       ELSE LET dep     == deps[top.i]
                is_last == (top.i = Len(deps))
            IN [lines  |-> Append(ts.lines,
                                  TreeLine(top.prefix, is_last, FeatureName(feats, dep), dep)),
                frames |-> Append([ts.frames EXCEPT ![n].i = @ + 1],
                                  [code |-> dep, prefix |-> Append(top.prefix, is_last),
                                   depth |-> top.depth + 1, i |-> 1])]

RECURSIVE TreeLoop(_, _, _, _)
TreeLoop(g, feats, max_depth, ts) ==
    IF TreeDone(ts) THEN ts ELSE TreeLoop(g, feats, max_depth, TreeStep(g, feats, max_depth, ts))

\* the tree lines that follow "Dependencies:"
format_dependency_tree(g, feats, faj_code, max_depth) ==
    TreeLoop(g, feats, max_depth, TreeStart(faj_code)).lines

\* the max_depth values a caller passes
TreeDepths == {DefaultMaxDepth} \cup 0..MaxDepthArg

\* ------------------------------------------------------------------ actions
NoQuery == [op |-> "none", key |-> NoKey, recursive |-> FALSE, depth |-> 0,
            list |-> <<>>, cycles |-> <<>>, name |-> "", lines |-> <<>>,
            count |-> 0, direct |-> <<>>, error |-> "none", calls |-> 0,
            query |-> <<>>, resolved |-> <<>>, found |-> FALSE,
            request |-> <<>>, sequence |-> <<>>, unresolved |-> <<>>,
            canCoexist |-> TRUE, conflictPairs |-> {}, missing |-> {}]

NoRun == [op |-> "none", key |-> NoKey, depth |-> 0, st |-> <<>>]

Init ==
    /\ features_file \in FeatureFiles
    /\ dep_graph_file \in DepGraphFiles(EdgesByType(MaxEdges, MaxMixedEdges), FlatDicts)
    /\ acronym_file = NoAcronymFile
    /\ pc = "start"
    /\ features = [kind |-> "dict", keys |-> {}]
    /\ dependency_graph = <<>>
    /\ conflict_graph = <<>>
    /\ feature_by_acronym = <<>>
    /\ last = NoQuery
    /\ run = NoRun

\* json.load raises on a file that exists and is not JSON (line 34)
LoadRaises ==
    \/ features_file.present /\ ~features_file.json
    \/ dep_graph_file.kind = "malformed"
    \/ acronym_file.present /\ ~acronym_file.json

\* DependencyAnalyzer(skill_path): __init__ and _load_data; an exception of
\* _load_json leaves no analyzer (main, lines 211-215)
Construct ==
    /\ pc = "start"
    /\ IF LoadRaises
       THEN /\ pc' = "failed"
            /\ UNCHANGED <<features, dependency_graph, conflict_graph, feature_by_acronym>>
       ELSE /\ pc' = "ready"
            /\ features' = LoadFeatures(features_file)
            /\ dependency_graph' = LoadDependencyGraph(dep_graph_file)
            /\ conflict_graph' = <<>>
            /\ feature_by_acronym' = LoadAcronyms(acronym_file)
    /\ UNCHANGED <<features_file, dep_graph_file, acronym_file, last, run>>

\* dict.get(k, default) on the map d: the map afterwards. get() adds nothing,
\* also on the defaultdict of line 21 (lines 69, 88, 136, 179).
DictAfterGet_Subscript(d, k) ==
    IF HasKey(d, k) THEN d ELSE Append(d, [key |-> k, deps |-> <<>>])

DictAfterGet(d, k) == d

\* lines 158-166; line 162 raises AttributeError when self.features is the []
\* of an absent file
get_impact_analysis(g, feats, k) ==
    IF feats.kind = "list"
    THEN [NoQuery EXCEPT !.op = "get_impact_analysis", !.key = k,
                         !.error = "AttributeError"]
    ELSE [NoQuery EXCEPT !.op = "get_impact_analysis", !.key = k,
                         !.name = FeatureName(feats, k),
                         !.list = get_dependents(g, k, TRUE),
                         !.count = Len(get_dependents(g, k, TRUE)),
                         !.direct = get_dependents(g, k, FALSE)]

\* what each method returns on the analyzer as it stands
ResultGetDependencies(k, r) ==
    [NoQuery EXCEPT !.op = "get_dependencies", !.key = k, !.recursive = r,
                    !.list = get_dependencies(dependency_graph, k, r)]

ResultGetDependents(k, r) ==
    [NoQuery EXCEPT !.op = "get_dependents", !.key = k, !.recursive = r,
                    !.list = get_dependents(dependency_graph, k, r)]

ResultFindCycles ==
    [NoQuery EXCEPT !.op = "find_cycles", !.cycles = find_cycles(dependency_graph)]

\* line 171 raises AttributeError when self.features is the [] of an absent file
ResultFormatDependencyTree(k, d) ==
    IF features.kind = "list"
    THEN [NoQuery EXCEPT !.op = "format_dependency_tree", !.key = k,
                         !.depth = d, !.error = "AttributeError"]
    ELSE [NoQuery EXCEPT !.op = "format_dependency_tree", !.key = k,
                         !.depth = d, !.name = FeatureName(features, k),
                         !.lines = format_dependency_tree(dependency_graph,
                                                          features, k, d)]

ResultGetImpactAnalysis(k) == get_impact_analysis(dependency_graph, features, k)

\* the n-th call of a session, answering res after looking key k up in the map
Call(res, k) ==
    /\ pc = "ready"
    /\ last' = [res EXCEPT !.calls = last.calls + 1]
    /\ dependency_graph' = DictAfterGet(dependency_graph, k)
    /\ UNCHANGED <<features_file, dep_graph_file, acronym_file, pc, features,
                   conflict_graph, feature_by_acronym, run>>

\* a call that looks nothing up by key (lines 94-123 iterate items())
CallNoGet(res) ==
    /\ pc = "ready"
    /\ last' = [res EXCEPT !.calls = last.calls + 1]
    /\ UNCHANGED <<features_file, dep_graph_file, acronym_file, pc, features,
                   dependency_graph, conflict_graph, feature_by_acronym, run>>

\* As in main(), a run constructs the analyzer and makes one query.
GetDependencies(k, r) ==
    last.op = "none" /\ Call(ResultGetDependencies(k, r), k)

GetDependents(k, r) ==
    last.op = "none" /\ CallNoGet(ResultGetDependents(k, r))

FindCycles ==
    last.op = "none" /\ CallNoGet(ResultFindCycles)

FormatDependencyTree(k, d) ==
    last.op = "none" /\ Call(ResultFormatDependencyTree(k, d), k)

GetImpactAnalysis(k) ==
    last.op = "none" /\ CallNoGet(ResultGetImpactAnalysis(k))

Next ==
    \/ Construct
    \/ \E k \in Keys, r \in BOOLEAN : GetDependencies(k, r)
    \/ \E k \in Keys, r \in BOOLEAN : GetDependents(k, r)
    \/ FindCycles
    \/ \E k \in Keys, d \in TreeDepths : FormatDependencyTree(k, d)
    \/ \E k \in Keys : GetImpactAnalysis(k)

Spec == Init /\ [][Next]_vars

\* ------------------------------------------------- the queries step by step
\* The same loops, one iteration per step: as in main(), the analyzer is
\* constructed and one query is begun; its loop body (DepsStep,
\* DependentsStep, CyclesStep, TreeStep) runs until the loop condition
\* fails, and the query returns.
Analyzer == <<features_file, dep_graph_file, acronym_file, pc, features,
              dependency_graph, conflict_graph, feature_by_acronym>>

BeginGetDependencies(k) ==
    /\ pc = "ready" /\ run.op = "none" /\ last.op = "none"
    /\ run' = [op |-> "get_dependencies", key |-> k, depth |-> 0,
               st |-> [visited |-> {}, to_visit |-> DictGet(dependency_graph, k),
                       out |-> <<>>]]
    /\ UNCHANGED <<Analyzer, last>>

BeginGetDependents(k) ==
    /\ pc = "ready" /\ run.op = "none" /\ last.op = "none"
    /\ run' = [op |-> "get_dependents", key |-> k, depth |-> 0,
               st |-> [visited |-> {}, to_visit |-> Holders(dependency_graph, k),
                       out |-> <<>>]]
    /\ UNCHANGED <<Analyzer, last>>

BeginFindCycles ==
    /\ pc = "ready" /\ run.op = "none" /\ last.op = "none"
    /\ run' = [op |-> "find_cycles", key |-> NoKey, depth |-> 0, st |-> CyclesStart]
    /\ UNCHANGED <<Analyzer, last>>

BeginFormatDependencyTree(k, d) ==
    /\ pc = "ready" /\ run.op = "none" /\ last.op = "none"
    /\ features.kind = "dict"
    /\ run' = [op |-> "format_dependency_tree", key |-> k, depth |-> d,
               st |-> TreeStart(k)]
    /\ UNCHANGED <<Analyzer, last>>

\* the loop condition of the query in progress is false
RunDone ==
    CASE run.op = "get_dependencies" -> run.st.to_visit = <<>>
      [] run.op = "get_dependents" -> run.st.to_visit = <<>>
      [] run.op = "find_cycles" -> CyclesDone(dependency_graph, run.st)
      [] run.op = "format_dependency_tree" -> TreeDone(run.st)
      [] OTHER -> FALSE

StepGetDependencies ==
    /\ run.op = "get_dependencies" /\ ~RunDone
    /\ run' = [run EXCEPT !.st = DepsStep(dependency_graph, @)]
    /\ UNCHANGED <<Analyzer, last>>

StepGetDependents ==
    /\ run.op = "get_dependents" /\ ~RunDone
    /\ run' = [run EXCEPT !.st = DependentsStep(dependency_graph, @)]
    /\ UNCHANGED <<Analyzer, last>>

StepFindCycles ==
    /\ run.op = "find_cycles" /\ ~RunDone
    /\ run' = [run EXCEPT !.st = CyclesStep(dependency_graph, @)]
    /\ UNCHANGED <<Analyzer, last>>

StepFormatDependencyTree ==
    /\ run.op = "format_dependency_tree" /\ ~RunDone
    /\ run' = [run EXCEPT !.st = TreeStep(dependency_graph, features, run.depth, @)]
    /\ UNCHANGED <<Analyzer, last>>

\* the return statement of the query in progress
Return ==
    /\ run.op # "none" /\ RunDone
    /\ last' = CASE run.op = "find_cycles" ->
                      [NoQuery EXCEPT !.op = run.op, !.cycles = run.st.cycles]
                 [] run.op = "format_dependency_tree" ->
                      [NoQuery EXCEPT !.op = run.op, !.key = run.key, !.depth = run.depth,
                                      !.name = FeatureName(features, run.key),
                                      !.lines = run.st.lines]
                 [] OTHER ->
                      [NoQuery EXCEPT !.op = run.op, !.key = run.key, !.recursive = TRUE,
                                      !.list = run.st.out]
    /\ run' = NoRun
    /\ UNCHANGED Analyzer

StepNext ==
    \/ Construct
    \/ \E k \in Keys : BeginGetDependencies(k)
    \/ \E k \in Keys : BeginGetDependents(k)
    \/ BeginFindCycles
    \/ \E k \in Keys, d \in TreeDepths : BeginFormatDependencyTree(k, d)
    \/ StepGetDependencies
    \/ StepGetDependents
    \/ StepFindCycles
    \/ StepFormatDependencyTree
    \/ Return

StepInit ==
    /\ features_file \in FeatureFiles
    /\ dep_graph_file \in DepGraphFiles(EdgesByType(MaxStepEdges, 0), {})
    /\ acronym_file = NoAcronymFile
    /\ pc = "start"
    /\ features = [kind |-> "dict", keys |-> {}]
    /\ dependency_graph = <<>>
    /\ conflict_graph = <<>>
    /\ feature_by_acronym = <<>>
    /\ last = NoQuery
    /\ run = NoRun

\* the program is single-threaded and synchronous: a loop that can take
\* another iteration takes it
StepSpec == StepInit /\ [][StepNext]_vars /\ WF_vars(StepNext)


TypeOK ==
    /\ pc \in {"start", "ready", "failed"}
    /\ NoDup(DictKeys(dependency_graph))

\* ------------------------------------------------- graphs, for the properties
\* the edges the analyzer holds
GraphEdges(g) == UNION {{<<g[i].key, t>> : t \in Range(g[i].deps)} : i \in 1..Len(g)}

\* the well-formed edges of one type in dependency_graph.json
FileEdges(df, t) == {<<e.from, e.to>> : e \in {x \in Range(df.edges[t]) :
                                                  x.from # NoKey /\ x.to # NoKey}}

PrerequisiteEdges(df) == FileEdges(df, 1)

\* the pairs joined by a path of at least one and at most n + 1 edges of E
RECURSIVE PathsUpTo(_, _)
PathsUpTo(E, n) ==
    IF n = 0 THEN E
    ELSE LET P == PathsUpTo(E, n - 1)
         IN P \cup {ac \in Keys \X Keys :
                       \E b \in Keys : <<ac[1], b>> \in P /\ <<b, ac[2]>> \in E}

\* the pairs joined by a directed path of one or more edges of E
Paths(E) == PathsUpTo(E, Cardinality(Keys))

Acyclic(E) == \A k \in Keys : <<k, k>> \notin Paths(E)

\* the strongly-connected region of a key that lies on a cycle
Region(E, k) == {j \in Keys : <<k, j>> \in Paths(E) /\ <<j, k>> \in Paths(E)}

\* the nesting depth of a tree line
LineDepth(l) == Len(l.prefix)

\* the line at depth d on the branch that ends at line i: the last one before i
LineAbove(lines, i, d) ==
    CHOOSE j \in 1..i : /\ LineDepth(lines[j]) = d
                        /\ \A m \in (j + 1)..i : LineDepth(lines[m]) # d

\* the keys from the root down to line i
Branch(root, lines, i) ==
    <<root>> \o [d \in 1..(LineDepth(lines[i]) + 1) |-> lines[LineAbove(lines, i, d - 1)].key]

Returned(op) == pc = "ready" /\ run.op = "none" /\ last.op = op /\ last.error = "none"

\* ------------------------------------------------------------------ C1
\* C1: get_dependents(F, recursive=False) returns exactly the keys that declare
\* a Prerequisite edge targeting F in the snapshot, and none on account of a
\* Related or Conflicting edge.
C1_DirectDependentsArePrerequisiteSources ==
    (Returned("get_dependents") /\ ~last.recursive /\ dep_graph_file.kind = "edges")
        => Range(last.list) =
               {e[1] : e \in {x \in PrerequisiteEdges(dep_graph_file) : x[2] = last.key}}

\* ------------------------------------------------------------------ C2
\* C2: find_cycles() returns an empty list exactly when the Prerequisite edges
\* of the snapshot form no directed cycle, whatever Related or Conflicting
\* edges it declares.
C2_NoCyclesIffPrerequisiteDag ==
    (Returned("find_cycles") /\ dep_graph_file.kind = "edges")
        => (last.cycles = <<>> <=> Acyclic(PrerequisiteEdges(dep_graph_file)))

\* ------------------------------------------------------------------ C3
\* C3: for every strongly-connected region of the dependency graph that
\* contains a cycle, find_cycles() returns a cycle whose keys all lie in it,
\* for every order of the nodes and of the neighbour lists.
C3_OneCyclePerRegion ==
    Returned("find_cycles")
        => \A k \in Keys :
              <<k, k>> \in Paths(GraphEdges(dependency_graph))
                  => \E i \in 1..Len(last.cycles) :
                        Range(last.cycles[i]) \subseteq Region(GraphEdges(dependency_graph), k)

\* ------------------------------------------------------------------ C4
\* C4: every graph query that is begun returns, on every finite dependency
\* graph, cyclic ones and self-loops included.
QueryRunning == run.op # "none"

C4_EveryQueryReturns == QueryRunning ~> ~QueryRunning

\* a tree query, the deepest one, has returned on a graph where the root lies
\* on a cycle
C4_Witness ==
    /\ Returned("format_dependency_tree")
    /\ last.depth = DefaultMaxDepth
    /\ <<last.key, last.key>> \in Paths(GraphEdges(dependency_graph))
    /\ \E i \in 1..Len(last.lines) : LineDepth(last.lines[i]) = DefaultMaxDepth - 1

\* ------------------------------------------------------------------ C5
\* C5: in the prerequisite tree of any root, a key that reappears on the
\* current branch is not descended into: the keys above any line of the tree,
\* from the root down to its parent, are pairwise distinct.
C5_NoDescentIntoRepeatedKey ==
    Returned("format_dependency_tree")
        => \A i \in 1..Len(last.lines) :
              LET b == Branch(last.key, last.lines, i)
              IN NoDup(SubSeq(b, 1, Len(b) - 1))

\* ------------------------------------------------------------------ C6
\* C6: on an acyclic graph the flattened prerequisite list is deepest-first:
\* every listed feature comes after all of its own prerequisites in the list.
C6_FlatListDeepestFirst ==
    (Returned("get_dependencies") /\ last.recursive
        /\ Acyclic(GraphEdges(dependency_graph)))
        => \A i, j \in 1..Len(last.list) :
              <<last.list[i], last.list[j]>> \in GraphEdges(dependency_graph) => j < i

\* ------------------------------------------------------------------ C7
\* C7: get_dependencies(k, recursive=True) never contains k itself, on cyclic
\* graphs too.
C7_FlatListExcludesSelf ==
    (Returned("get_dependencies") /\ last.recursive)
        => last.key \notin Range(last.list)

\* ------------------------------------------------------------------ C8
\* C8: get_dependents(k, recursive=True) returns exactly the keys from which k
\* is reachable by a path of one or more edges, each listed once.
C8_RecursiveDependentsAreReverseClosure ==
    (Returned("get_dependents") /\ last.recursive)
        => /\ Range(last.list) =
                  {j \in Keys : <<j, last.key>> \in Paths(GraphEdges(dependency_graph))}
           /\ NoDup(last.list)

\* a recursive query on a cyclic graph returned indirect dependents, k among them
C8_Witness ==
    /\ Returned("get_dependents") /\ last.recursive
    /\ last.key \in Range(last.list)
    /\ \E j \in Range(last.list) : <<j, last.key>> \notin GraphEdges(dependency_graph)

\* ------------------------------------------------------------------ C9
\* C9: get_dependencies(k, recursive=True) returns exactly the keys reachable
\* from k by a path of one or more edges, none of them twice.
C9_RecursiveDependenciesAreClosure ==
    (Returned("get_dependencies") /\ last.recursive)
        => /\ Range(last.list) =
                  {j \in Keys : <<last.key, j>> \in Paths(GraphEdges(dependency_graph))}
           /\ NoDup(last.list)

\* a recursive query returned a key that is reached along two paths: declared
\* by k itself and by another key of the result
C9_Witness ==
    /\ Returned("get_dependencies") /\ last.recursive
    /\ \E j \in Range(last.list) :
          /\ <<last.key, j>> \in GraphEdges(dependency_graph)
          /\ \E m \in Range(last.list) \ {last.key, j} :
                <<m, j>> \in GraphEdges(dependency_graph)

\* ------------------------------------------------------------------ C10
\* C10: loading fails when features.json is absent, and no analyzer is ever
\* produced with an empty or partially loaded record store.
C10_NoAnalyzerWithoutSnapshot ==
    pc = "ready"
        => /\ features_file.present
           /\ features.kind = "dict"
           /\ features.keys = features_file.keys

\* ------------------------------------------------------------------ C11
\* every edge the snapshot declares with a source and a target: the edges of
\* every type of the "edges" shape, the entries of the flat shape
SnapshotEdges(df) ==
    IF df.kind = "edges" THEN UNION {FileEdges(df, t) : t \in 1..Len(EdgeTypes)}
    ELSE IF df.kind = "flat" THEN GraphEdges(df.flat)
    ELSE {}

\* C11: no edge is dropped by the graph build: for every edge S -> T of the
\* snapshot, S is in get_dependents(T) and T is in get_dependencies(S), also
\* when T is not a known feature record.
C11_NoEdgeDropped ==
    /\ (Returned("get_dependents") /\ ~last.recursive)
          => \A e \in SnapshotEdges(dep_graph_file) :
                e[2] = last.key => e[1] \in Range(last.list)
    /\ (Returned("get_dependencies") /\ ~last.recursive)
          => \A e \in SnapshotEdges(dep_graph_file) :
                e[1] = last.key => e[2] \in Range(last.list)

\* the dependents of a key that is no feature record were asked for, and two
\* sources that declare it were returned
C11_Witness ==
    /\ Returned("get_dependents") /\ ~last.recursive
    /\ features.kind = "dict" /\ last.key \notin features.keys
    /\ Cardinality({e \in SnapshotEdges(dep_graph_file) : e[2] = last.key}) >= 2
    /\ Len(last.list) >= 2

\* ------------------------------------------------------ a session of queries
\* An analyzer constructed once and queried MaxCalls times, as a caller of the
\* class may do.
SessionAcronymFiles ==
    {NoAcronymFile,
     [present |-> TRUE, json |-> FALSE, entries |-> <<>>],
     [present |-> TRUE, json |-> TRUE,
      entries |-> <<[acronym |-> <<"a">>, faj |-> "A"]>>]}

SessionInit ==
    /\ features_file \in FeatureFiles
    /\ dep_graph_file \in DepGraphFiles(EdgesByType(MaxSessionEdges, MaxSessionEdges), {})
    /\ acronym_file \in SessionAcronymFiles
    /\ pc = "start"
    /\ features = [kind |-> "dict", keys |-> {}]
    /\ dependency_graph = <<>>
    /\ conflict_graph = <<>>
    /\ feature_by_acronym = <<>>
    /\ last = NoQuery
    /\ run = NoRun

SessionGetDependencies(k, r) ==
    last.calls < MaxCalls /\ Call(ResultGetDependencies(k, r), k)

SessionGetDependents(k, r) ==
    last.calls < MaxCalls /\ CallNoGet(ResultGetDependents(k, r))

SessionFindCycles ==
    last.calls < MaxCalls /\ CallNoGet(ResultFindCycles)

SessionFormatDependencyTree(k, d) ==
    last.calls < MaxCalls /\ Call(ResultFormatDependencyTree(k, d), k)

SessionGetImpactAnalysis(k) ==
    last.calls < MaxCalls /\ CallNoGet(ResultGetImpactAnalysis(k))

SessionNext ==
    \/ Construct
    \/ \E k \in Keys, r \in BOOLEAN : SessionGetDependencies(k, r)
    \/ \E k \in Keys, r \in BOOLEAN : SessionGetDependents(k, r)
    \/ SessionFindCycles
    \/ \E k \in Keys, d \in TreeDepths : SessionFormatDependencyTree(k, d)
    \/ \E k \in Keys : SessionGetImpactAnalysis(k)

SessionSpec == SessionInit /\ [][SessionNext]_vars

\* two results are of the same call / carry the same answer
SameCall(a, b) ==
    /\ a.op # "none" /\ a.op = b.op /\ a.key = b.key
    /\ a.recursive = b.recursive /\ a.depth = b.depth

SameAnswer(a, b) == [a EXCEPT !.calls = 0] = [b EXCEPT !.calls = 0]

\* C12: every query is a pure read. A query of a constructed analyzer, with a
\* known or an unknown key, leaves the features mapping, the dependency graph
\* (keys and edge lists), the conflict graph and the acronym map as they were,
\* and a query repeated right after itself returns the same answer.
C12_QueriesArePureReads ==
    [][pc = "ready" =>
         /\ features' = features
         /\ dependency_graph' = dependency_graph
         /\ conflict_graph' = conflict_graph
         /\ feature_by_acronym' = feature_by_acronym
         /\ SameCall(last, last') => SameAnswer(last, last')]_vars

\* a second get_dependencies in a row for a key the graph does not hold, on an
\* analyzer with a graph and an acronym map
C12_Witness ==
    /\ pc = "ready" /\ last.calls = 2
    /\ last.op = "get_dependencies" /\ ~HasKey(dependency_graph, last.key)
    /\ last.key \notin features.keys
    /\ dependency_graph # <<>> /\ feature_by_acronym # <<>>

\* ------------------------------------------------------------------ C13
\* C13: in the prerequisite tree a node whose key is absent from the feature
\* record store is a leaf: no line is nested beneath the line of such a key.
C13_AbsentNodeIsLeaf ==
    Returned("format_dependency_tree")
        => \A i \in 1..Len(last.lines) :
              last.lines[i].key \notin features.keys
                  => \/ i = Len(last.lines)
                     \/ LineDepth(last.lines[i + 1]) <= LineDepth(last.lines[i])

\* ------------------------------------------------------------------ C14
\* C14: every cycle returned by find_cycles() is a genuine cycle of the graph:
\* at least two keys, the first equal to the last, every consecutive pair an
\* edge of the dependency graph, and no key repeated but the first/last.
C14_ReturnedCyclesAreGenuine ==
    Returned("find_cycles")
        => \A n \in 1..Len(last.cycles) :
              LET c == last.cycles[n]
              IN /\ Len(c) >= 2
                 /\ c[1] = c[Len(c)]
                 /\ \A i \in 1..(Len(c) - 1) :
                       <<c[i], c[i + 1]>> \in GraphEdges(dependency_graph)
                 /\ NoDup(SubSeq(c, 1, Len(c) - 1))

\* a cycle of two keys found below a node that is not on it
C14_Witness ==
    /\ Returned("find_cycles")
    /\ \E n \in 1..Len(last.cycles) :
          /\ Len(last.cycles[n]) = 3
          /\ dependency_graph[1].key \notin Range(last.cycles[n])
          /\ <<dependency_graph[1].key, last.cycles[n][1]>> \in GraphEdges(dependency_graph)

\* ------------------------------------------------------------ key resolution
\* the characters of the query strings
QueryChars == {"F", "A", "J", " ", "_"}

Queries == SeqsUpTo(QueryChars, MaxQueryLen)

\* s.replace(' ', '_', 1)
Replace_FirstOnly(s) ==
    [i \in 1..Len(s) |-> IF s[i] = " " /\ \A j \in 1..(i - 1) : s[j] # " " THEN "_"
                         ELSE s[i]]

\* s.replace(' ', '_')
Replace(s) == [i \in 1..Len(s) |-> IF s[i] = " " THEN "_" ELSE s[i]]

\* s.startswith(p)
StartsWith(s, p) == Len(s) >= Len(p) /\ SubSeq(s, 1, Len(p)) = p

FAJ == <<"F", "A", "J">>

\* deps.py main, lines 232-240: the key a query is resolved to
DepsResolve(byAcronym, query) ==
    IF ~StartsWith(query, FAJ)
    THEN LET resolved == get_feature_by_acronym(byAcronym, query)
         IN IF resolved # NoStr THEN resolved ELSE Replace(query)
    ELSE query

\* cmedit_generator.py main, lines 224-236; no query here starts with '121'
CmeditResolve(byAcronym, query) ==
    IF ~StartsWith(query, FAJ) /\ ~StartsWith(query, <<"1", "2", "1">>)
    THEN LET resolved == get_feature_by_acronym(byAcronym, query)
         IN IF resolved # NoStr THEN resolved ELSE Replace(query)
    ELSE Replace(query)

\* the record a lookup leaves as the answer
Lookup(op, query, key, found, err) ==
    [NoQuery EXCEPT !.op = op, !.query = query, !.resolved = key,
                    !.found = found, !.error = err, !.calls = 1]

LookupFrame ==
    UNCHANGED <<features_file, dep_graph_file, acronym_file, pc, features,
                dependency_graph, conflict_graph, feature_by_acronym, run>>

\* deps.py main, lines 232-245: 'not in' is also defined on the [] of an
\* absent features.json
DepsMain(query) ==
    /\ pc = "ready" /\ last.op = "none"
    /\ LET faj_code == DepsResolve(feature_by_acronym, query)
       IN last' = Lookup("deps_main", query, faj_code, faj_code \in features.keys, "none")
    /\ LookupFrame

\* search.py lines 118-122; the three tools load features.json alike
\* (search.py 39-52), and [].get raises AttributeError
SearchByFaj(query) ==
    /\ pc = "ready" /\ last.op = "none"
    /\ last' = IF features.kind = "list"
               THEN Lookup("search_by_faj", query, NoStr, FALSE, "AttributeError")
               ELSE Lookup("search_by_faj", query, Replace(query),
                           Replace(query) \in features.keys, "none")
    /\ LookupFrame

\* cmedit_generator.py lines 47-50
GetFeature(query) ==
    /\ pc = "ready" /\ last.op = "none"
    /\ last' = IF features.kind = "list"
               THEN Lookup("get_feature", query, NoStr, FALSE, "AttributeError")
               ELSE Lookup("get_feature", query, Replace(query),
                           Replace(query) \in features.keys, "none")
    /\ LookupFrame

\* cmedit_generator.py main, lines 224-241: resolution, then get_feature
CmeditMain(query) ==
    /\ pc = "ready" /\ last.op = "none"
    /\ LET faj_code == CmeditResolve(feature_by_acronym, query)
       IN last' = IF features.kind = "list"
                  THEN Lookup("cmedit_main", query, faj_code, FALSE, "AttributeError")
                  ELSE Lookup("cmedit_main", query, Replace(faj_code),
                              Replace(faj_code) \in features.keys, "none")
    /\ LookupFrame

\* stored keys and acronyms over the same characters
FAJ_A == <<"F", "A", "J", "_", "A">>

LookupFeatureFiles ==
    {[present |-> FALSE, json |-> FALSE, keys |-> {}],
     [present |-> TRUE, json |-> FALSE, keys |-> {}]} \cup
    {[present |-> TRUE, json |-> TRUE, keys |-> ks] :
        ks \in {{}, {FAJ_A}, {FAJ_A, <<"A", "_", "J">>}}}

LookupAcronymFiles ==
    {NoAcronymFile,
     [present |-> TRUE, json |-> TRUE,
      entries |-> <<[acronym |-> <<"a", "j">>, faj |-> FAJ_A]>>],
     [present |-> TRUE, json |-> TRUE,
      entries |-> <<[acronym |-> <<"J", "A">>, faj |-> FAJ_A]>>]}

\* the 'acronym' of the record of a key in features.json, '' when the record
\* has none
RecordAcronym(k) == IF k = FAJ_A THEN <<"A", "J">> ELSE <<>>

\* the non-empty acronym strings of a query, in either letter case
AcronymQueries == SeqsUpTo({"a", "j", "A", "J"}, MaxAcronymLen) \ {<<>>}

\* deps.py: get_feature_by_acronym, then the features lookup of main (line
\* 243): the key of the record found, NoStr when none is
deps_by_acronym(byAcronym, feats, acronym) ==
    LET faj_code == get_feature_by_acronym(byAcronym, acronym)
    IN IF faj_code # NoStr /\ faj_code \in feats.keys THEN faj_code ELSE NoStr

\* search.py _load_json, lines 39-47: index_acronym.json as loaded, the list
\* [] when the file is absent
LoadAcronymIndex(af) ==
    IF af.present THEN [kind |-> "dict", entries |-> af.entries]
    ELSE [kind |-> "list", entries |-> <<>>]

\* search.py lines 67-68: the loop names the key of an entry faj_code and its
\* value feature_acronym, and tests the value
IndexMatch(en, acronym_upper) == Upper(en.faj) = acronym_upper

\* search.py line 69: features.get(faj_code), faj_code being the key of the entry
IndexTarget(en) == en.acronym

\* search.py lines 62-76: the key of the record returned (NoStr for None) and
\* the exception raised; [].items() and [].get raise AttributeError
search_by_acronym(index, feats, acronym) ==
    LET acronym_upper == Upper(acronym)
        hits == {i \in 1..Len(index.entries) : IndexMatch(index.entries[i], acronym_upper)}
        recs == {k \in feats.keys : Upper(RecordAcronym(k)) = acronym_upper}
    IN IF index.kind = "list" THEN [key |-> NoStr, error |-> "AttributeError"]
       ELSE IF hits # {}
       THEN LET en == index.entries[CHOOSE i \in hits : \A j \in hits : i <= j]
            IN IF feats.kind = "list" THEN [key |-> NoStr, error |-> "AttributeError"]
               ELSE IF IndexTarget(en) \in feats.keys
               THEN [key |-> IndexTarget(en), error |-> "none"]
               ELSE [key |-> NoStr, error |-> "none"]
       ELSE IF feats.kind = "list" THEN [key |-> NoStr, error |-> "AttributeError"]
       ELSE IF recs # {} THEN [key |-> CHOOSE k \in recs : TRUE, error |-> "none"]
       ELSE [key |-> NoStr, error |-> "none"]

\* deps.py: the acronym branch of main (lines 235-243)
DepsByAcronym(acronym) ==
    /\ pc = "ready" /\ last.op = "none"
    /\ LET k == deps_by_acronym(feature_by_acronym, features, acronym)
       IN last' = Lookup("deps_by_acronym", acronym, k, k # NoStr, "none")
    /\ LookupFrame

\* search.py: FeatureDatabase(path).search_by_acronym(acronym) (line 244)
SearchByAcronym(acronym) ==
    /\ pc = "ready" /\ last.op = "none"
    /\ LET r == search_by_acronym(LoadAcronymIndex(acronym_file), features, acronym)
       IN last' = Lookup("search_by_acronym", acronym, r.key, r.key # NoStr, r.error)
    /\ LookupFrame

LookupInit ==
    /\ features_file \in LookupFeatureFiles
    /\ dep_graph_file = [kind |-> "absent", edges |-> NoEdges, flat |-> <<>>]
    /\ acronym_file \in LookupAcronymFiles
    /\ pc = "start"
    /\ features = [kind |-> "dict", keys |-> {}]
    /\ dependency_graph = <<>>
    /\ conflict_graph = <<>>
    /\ feature_by_acronym = <<>>
    /\ last = NoQuery
    /\ run = NoRun

\* the query strings of a run: one lookup, once the data is loaded
RunQueries == IF pc = "ready" /\ last.op = "none" THEN Queries ELSE {}

LookupNext ==
    \/ Construct
    \/ \E q \in RunQueries : DepsMain(q)
    \/ \E q \in RunQueries : SearchByFaj(q)
    \/ \E q \in RunQueries : GetFeature(q)
    \/ \E q \in RunQueries : CmeditMain(q)
    \/ \E q \in AcronymQueries : DepsByAcronym(q)
    \/ \E q \in AcronymQueries : SearchByAcronym(q)

LookupSpec == LookupInit /\ [][LookupNext]_vars

\* ------------------------------------------------------------------ C15
\* C15: feature-key normalisation, as in search_by_faj and
\* CMEditGenerator.get_feature, is idempotent and total: the key a query is
\* normalised to is a string that normalisation maps to itself.
C15_NormalisationIdempotentAndTotal ==
    (Returned("search_by_faj") \/ Returned("get_feature"))
        => /\ last.resolved \in Seq(QueryChars)
           /\ Len(last.resolved) = Len(last.query)
           /\ Replace(last.resolved) = last.resolved

\* a query with two spaces, normalised
C15_Witness ==
    /\ Returned("get_feature")
    /\ Cardinality({i \in 1..Len(last.query) : last.query[i] = " "}) >= 2
    /\ last.resolved # last.query

\* ------------------------------------------------------------------ C16
\* C16: whitespace variance in a vendor code never changes which feature is
\* resolved: in the deps.py query resolution, as in search_by_faj and the
\* cmedit generator, a code written with spaces resolves to the key of its
\* underscore form, so a query for a stored feature is found in either
\* spelling.
C16_SpacesResolveAsUnderscores ==
    ((Returned("deps_main") \/ Returned("search_by_faj") \/ Returned("cmedit_main"))
        /\ StartsWith(last.query, FAJ)
        /\ Replace(last.query) \in features.keys)
        => last.found /\ last.resolved = Replace(last.query)

\* ------------------------------------- activation order and coexistence
\* order() and validate() as the design describes them (sections 4.4, 4.5),
\* over the record store and the typed edges of the snapshot.

\* the edges of one type declared by the records of the store (section 3:
\* an edge lives on its source record)
StoreEdges(feats, df, t) == {e \in FileEdges(df, t) : e[1] \in feats.keys}

\* the display names in ascending order
SortedNames == <<RecordName["A"], RecordName["B"], RecordName["C"]>>

NameBefore(a, b) == Index(SortedNames, RecordName[a]) < Index(SortedNames, RecordName[b])

\* the requested keys that resolve, in request order, and those that do not
ResolvedKeys(feats, keys) ==
    LET known(k) == k \in feats.keys IN SelectSeq(keys, known)

UnresolvedKeys(feats, keys) ==
    LET unknown(k) == k \notin feats.keys IN SelectSeq(keys, unknown)

\* the requested set with the transitive Prerequisite closure of each member
PlanUnion(feats, df, keys) ==
    LET R == Range(ResolvedKeys(feats, keys))
    IN R \cup {e[2] : e \in {p \in Paths(StoreEdges(feats, df, 1)) : p[1] \in R}}

\* Kahn's algorithm: the nodes with no pending in-set Prerequisite target
Eligible_IgnoringEdges(E, U, out) == U \ Range(out)

Eligible(E, U, out) ==
    {n \in U \ Range(out) :
        \A e \in E : (e[1] = n /\ e[2] \in U) => e[2] \in Range(out)}

\* the tie-break among the eligible nodes, taken as the first in request order
PickNext_RequestOrder(el, keys) ==
    IF \E i \in 1..Len(keys) : keys[i] \in el
    THEN keys[CHOOSE i \in 1..Len(keys) :
                 keys[i] \in el /\ \A j \in 1..(i - 1) : keys[j] \notin el]
    ELSE CHOOSE n \in el : \A m \in el \ {n} : NameBefore(n, m)

\* the tie-break among the eligible nodes: ascending display name
PickNext(el, keys) == CHOOSE n \in el : \A m \in el \ {n} : NameBefore(n, m)

RECURSIVE KahnLoop(_, _, _, _)
KahnLoop(E, U, keys, out) ==
    LET el == Eligible(E, U, out)
    IN IF el = {} THEN out
       ELSE KahnLoop(E, U, keys, Append(out, PickNext(el, keys)))

\* order(requestedKeys).sequence
order(feats, df, keys) ==
    KahnLoop(StoreEdges(feats, df, 1), PlanUnion(feats, df, keys), keys, <<>>)

\* a Conflicting edge between a and b, declared on either side
ConflictBetween_Declared(C, a, b) == <<a, b>> \in C

ConflictBetween(C, a, b) == <<a, b>> \in C \/ <<b, a>> \in C

\* validate(requestedKeys).conflictPairs: the unordered pairs of two resolved
\* members of the request, each member compared with those after it
conflict_pairs(feats, df, keys) ==
    LET r == ResolvedKeys(feats, keys)
        C == StoreEdges(feats, df, 3)
    IN {{r[p[1]], r[p[2]]} :
           p \in {q \in (1..Len(r)) \X (1..Len(r)) :
                     /\ q[1] < q[2] /\ r[q[1]] # r[q[2]]
                     /\ ConflictBetween(C, r[q[1]], r[q[2]])}}

\* validate(requestedKeys).missingPrerequisites, as (member, target) pairs
missing_prerequisites(feats, df, keys) ==
    LET R == Range(ResolvedKeys(feats, keys))
    IN {e \in StoreEdges(feats, df, 1) : e[1] \in R /\ e[2] \notin R}

\* the snapshots given to order() and validate(): Prerequisite and
\* Conflicting edges between keys, MaxPlanEdges in all
PlanEdgeObjects == {[from |-> f, to |-> t] : f \in Keys, t \in Keys}

PlanEdges ==
    UNION { UNION {
        {<<p, <<>>, c>> : p \in [1..np -> PlanEdgeObjects],
                          c \in [1..nc -> PlanEdgeObjects]} :
        nc \in 0..(MaxPlanEdges - np) } :
        np \in 0..MaxPlanEdges }

Requests == SeqsUpTo(Keys, MaxRequestLen)

PlanInit ==
    /\ features_file \in FeatureFiles
    /\ dep_graph_file \in {[kind |-> "edges", edges |-> e, flat |-> <<>>] : e \in PlanEdges}
    /\ acronym_file = NoAcronymFile
    /\ pc = "start"
    /\ features = [kind |-> "dict", keys |-> {}]
    /\ dependency_graph = <<>>
    /\ conflict_graph = <<>>
    /\ feature_by_acronym = <<>>
    /\ last = NoQuery
    /\ run = NoRun

\* section 4.1: without a record store no operation proceeds (NotFoundError)
Order(keys) ==
    /\ pc = "ready" /\ last.op = "none"
    /\ last' = IF features.kind = "list"
               THEN [NoQuery EXCEPT !.op = "order", !.request = keys,
                                    !.error = "NotFoundError", !.calls = 1]
               ELSE [NoQuery EXCEPT !.op = "order", !.request = keys,
                                    !.sequence = order(features, dep_graph_file, keys),
                                    !.unresolved = UnresolvedKeys(features, keys),
                                    !.calls = 1]
    /\ LookupFrame

Validate(keys) ==
    /\ pc = "ready" /\ last.op = "none"
    /\ last' = IF features.kind = "list"
               THEN [NoQuery EXCEPT !.op = "validate", !.request = keys,
                                    !.error = "NotFoundError", !.calls = 1]
               ELSE [NoQuery EXCEPT !.op = "validate", !.request = keys,
                                    !.resolved = ResolvedKeys(features, keys),
                                    !.unresolved = UnresolvedKeys(features, keys),
                                    !.conflictPairs = conflict_pairs(features, dep_graph_file, keys),
                                    !.canCoexist = (conflict_pairs(features, dep_graph_file, keys) = {}),
                                    !.missing = missing_prerequisites(features, dep_graph_file, keys),
                                    !.calls = 1]
    /\ LookupFrame

PlanNext ==
    \/ Construct
    \/ \E keys \in Requests : Order(keys)
    \/ \E keys \in Requests : Validate(keys)

PlanSpec == PlanInit /\ [][PlanNext]_vars

\* ------------------------------------------------------------------ C17
\* C17: order(keys) never places a feature before any of its Prerequisite
\* targets that are also in the output: for every Prerequisite edge S requires
\* T with both in the returned sequence, T comes strictly before S.
C17_PrerequisitesComeFirst ==
    Returned("order")
        => \A i, j \in 1..Len(last.sequence) :
              <<last.sequence[i], last.sequence[j]>> \in StoreEdges(features, dep_graph_file, 1)
                  => j < i

\* a requested feature whose prerequisite was pulled in and has the later name
C17_Witness ==
    /\ Returned("order")
    /\ \E i, j \in 1..Len(last.sequence) :
          /\ <<last.sequence[i], last.sequence[j]>> \in StoreEdges(features, dep_graph_file, 1)
          /\ NameBefore(last.sequence[i], last.sequence[j])
          /\ last.sequence[j] \notin Range(last.request)

\* ------------------------------------------------------------------ C18
\* C18: order(keys) depends only on the set of requested keys: every request
\* with the same set of keys gives the same sequence, ties among eligible
\* nodes being broken by ascending display name.
C18_OrderIsFunctionOfKeySet ==
    Returned("order")
        => \A r \in Requests :
              Range(r) = Range(last.request)
                  => order(features, dep_graph_file, r) = last.sequence

\* two requested features, both eligible at once, asked for in descending
\* name order
C18_Witness ==
    /\ Returned("order") /\ Len(last.request) = 2 /\ Len(last.sequence) >= 2
    /\ NameBefore(last.request[2], last.request[1])
    /\ last.sequence[1] = last.request[2]
    /\ Eligible(StoreEdges(features, dep_graph_file, 1),
                PlanUnion(features, dep_graph_file, last.request), <<>>)
           = Range(last.request)

\* ------------------------------------------------------------------ C19
\* C19: for two resolved features A and B, validate({A,B}) reports
\* canCoexist = false if and only if a Conflicting edge exists between A and B
\* in either direction; missing prerequisites alone never make it false.
C19_CoexistIffNoConflictEdge ==
    (Returned("validate") /\ Len(last.request) = 2
        /\ last.request[1] # last.request[2]
        /\ Range(last.request) \subseteq features.keys)
        => (~last.canCoexist <=>
               \/ <<last.request[1], last.request[2]>> \in FileEdges(dep_graph_file, 3)
               \/ <<last.request[2], last.request[1]>> \in FileEdges(dep_graph_file, 3))

\* a conflict declared on the second feature only
C19_Witness ==
    /\ Returned("validate") /\ Len(last.request) = 2
    /\ Range(last.request) \subseteq features.keys
    /\ <<last.request[2], last.request[1]>> \in FileEdges(dep_graph_file, 3)
    /\ <<last.request[1], last.request[2]>> \notin FileEdges(dep_graph_file, 3)
    /\ ~last.canCoexist

\* ------------------------------------------------------------------ C20
\* C20: conflict lookup is symmetric: after loading, every Conflicting edge of
\* the snapshot is visible from both of its endpoints through the conflict
\* graph of the analyzer.
C20_ConflictsVisibleFromBothEnds ==
    (pc = "ready" /\ dep_graph_file.kind = "edges")
        => \A e \in FileEdges(dep_graph_file, 3) :
              /\ e[2] \in Range(DictGet(conflict_graph, e[1]))
              /\ e[1] \in Range(DictGet(conflict_graph, e[2]))

\* ------------------------------------------------------------------ C21
\* C21: for every key k, get_impact_analysis(k) is internally consistent:
\* impact_count is the number of distinct keys of 'dependents', 'dependents'
\* is exactly the transitive dependents of k, every key of 'direct_dependents'
\* is in 'dependents', and for a key absent from the store the name is
\* 'Unknown' and the call does not fail.
C21_ImpactAnalysisConsistent ==
    (pc = "ready" /\ last.op = "get_impact_analysis")
        => /\ last.error = "none"
           /\ last.count = Cardinality(Range(last.list))
           /\ Range(last.list) =
                  {j \in Keys : <<j, last.key>> \in Paths(GraphEdges(dependency_graph))}
           /\ Range(last.direct) \subseteq Range(last.list)
           /\ last.count >= Len(last.direct)
           /\ last.key \notin features.keys => last.name = "Unknown"

\* ------------------------------------------------------------- deep graphs
\* Graphs with chains longer than the default max_depth: five keys, and
\* Prerequisite edges that point forward in DeepOrder, so that no graph has
\* a cycle.
DeepOrder == <<"A", "B", "C", "D", "E">>

DeepKeys == Range(DeepOrder)

DeepEdgeObjects ==
    {[from |-> DeepOrder[i], to |-> DeepOrder[j]] :
        <<i, j>> \in {p \in (1..Len(DeepOrder)) \X (1..Len(DeepOrder)) : p[1] < p[2]}}

DeepEdges == {<<p, <<>>, <<>>>> : p \in SeqsUpTo(DeepEdgeObjects, MaxDeepEdges)}

DeepInit ==
    /\ features_file \in {f \in FeatureFiles : f.present /\ f.json}
    /\ dep_graph_file \in {[kind |-> "edges", edges |-> e, flat |-> <<>>] : e \in DeepEdges}
    /\ acronym_file = NoAcronymFile
    /\ pc = "start"
    /\ features = [kind |-> "dict", keys |-> {}]
    /\ dependency_graph = <<>>
    /\ conflict_graph = <<>>
    /\ feature_by_acronym = <<>>
    /\ last = NoQuery
    /\ run = NoRun

\* format_dependency_tree(key), as main() calls it (line 248)
DeepNext ==
    \/ Construct
    \/ \E k \in DeepKeys : FormatDependencyTree(k, DefaultMaxDepth)

DeepSpec == DeepInit /\ [][DeepNext]_vars

\* the keys reached from the set S along edges of E, S included
RECURSIVE ReachFrom(_, _)
ReachFrom(E, S) ==
    LET T == S \cup {e[2] : e \in {x \in E : x[1] \in S}}
    IN IF T = S THEN S ELSE ReachFrom(E, T)

\* the keys reachable from k by a chain of one or more edges of E
Reachable(E, k) == ReachFrom(E, {e[2] : e \in {x \in E : x[1] = k}})

\* ------------------------------------------------------------------ C22
\* C22: with no depth limit given the prerequisite tree is expanded without a
\* depth bound: on an acyclic graph every key reachable from the root by a
\* chain of edges of any length appears in the tree of
\* format_dependency_tree(key) called with its default arguments.
C22_DefaultTreeShowsEveryReachableKey ==
    (Returned("format_dependency_tree") /\ last.depth = DefaultMaxDepth
        /\ \A k \in DeepKeys : k \notin Reachable(GraphEdges(dependency_graph), k))
        => Reachable(GraphEdges(dependency_graph), last.key)
              \subseteq {last.lines[i].key : i \in 1..Len(last.lines)}

\* ------------------------------------------------------------------ C23
\* C23: the duplicated key resolvers agree: on the same index_acronym.json
\* and features.json, get_feature_by_acronym followed by the features lookup
\* and search_by_acronym resolve every acronym string, in any letter case, to
\* the same feature record, or both report not found.
C23_AcronymResolversAgree ==
    /\ (pc = "ready" /\ last.op = "search_by_acronym")
          => /\ last.error = "none"
             /\ last.resolved = deps_by_acronym(feature_by_acronym, features, last.query)
    /\ (pc = "ready" /\ last.op = "deps_by_acronym")
          => search_by_acronym(LoadAcronymIndex(acronym_file), features, last.query)
                = [key |-> last.resolved, error |-> "none"]

\* ------------------------------------------------------------------ C24
\* C24: the cycles returned by one find_cycles() call are pairwise
\* node-disjoint: no key is in two returned cycles, so one directed cycle is
\* reported once and never again as a rotation or a duplicate, whichever node
\* the search starts from.
C24_CyclesAreNodeDisjoint ==
    Returned("find_cycles")
        => \A m, n \in 1..Len(last.cycles) :
              m # n => Range(last.cycles[m]) \cap Range(last.cycles[n]) = {}

\* two cycles returned, one of them through two keys that are both roots of
\* the search
C24_Witness ==
    /\ Returned("find_cycles") /\ Len(last.cycles) >= 2
    /\ \E n \in 1..Len(last.cycles) :
          /\ Len(last.cycles[n]) = 3
          /\ Range(last.cycles[n]) \subseteq Range(DictKeys(dependency_graph))

\* ------------------------------------------------------------------ C25
\* C25: find_cycles() returns a non-empty list if and only if the dependency
\* graph as loaded, with the edges of every kind that _load_data merged, has a
\* directed cycle: the early return and the shared visited set never make
\* every cycle of a cyclic graph be missed.
C25_CyclesFoundIffGraphCyclic ==
    Returned("find_cycles")
        => (last.cycles # <<>> <=> ~Acyclic(GraphEdges(dependency_graph)))

\* a cyclic graph where the early return left a key that lies on a cycle in
\* no returned cycle
C25_Witness ==
    /\ Returned("find_cycles") /\ last.cycles # <<>>
    /\ \E k \in Keys :
          /\ <<k, k>> \in Paths(GraphEdges(dependency_graph))
          /\ \A n \in 1..Len(last.cycles) : k \notin Range(last.cycles[n])
====
